---- MODULE Spec2Model ----
(***************************************************************************)
(* A model of the BeamBackgroundFilterAndQA module and its                 *)
(* StreakSidebandFilter.                                                   *)
(*                                                                         *)
(* The module (src/src/BeamBackgroundFilterAndQA.cc, lines 258-540) owns   *)
(* a map of named filters and applies the configured ones to every event.  *)
(* The filter (src/src/StreakSidebandFilter.cc) rebuilds an (eta, phi)     *)
(* array of towers from the event's tower container and counts, per phi    *)
(* bin, the towers that look like part of a streak.                        *)
(*                                                                         *)
(* Energies are integers in units of 0.01 GeV: 0.6 is 60, 0.06 is 6 and    *)
(* the -1. of an unset tower is -100. Only their order is used.            *)
(***************************************************************************)
EXTENDS Integers, Sequences, FiniteSets, TLC

\* ------------------------------------------------------------------ bounds

\* The tower array is 24 (eta) x 64 (phi) in the code; the model keeps the
\* shape and the periodic phi axis on a smaller array.
NEta == 2
NPhi == 3
\* minNumTwrsInStreak ranges over 0 .. MaxThreshold.
MaxThreshold == 2
\* A container holds at most MaxHot towers that are not quiet.
MaxHot == 2

\* ------------------------------------------------------- program constants

minStreakTwrEneDefault == 60
maxAdjacentTwrEneDefault == 6

Eta == 0 .. (NEta - 1)
Phi == 0 .. (NPhi - 1)
NChannels == NEta * NPhi

\* ------------------------------------------------------------------ towers

\* BeamBackgroundFilterAndQADefs::Tower, default member values.
Tower(s, e) == [status |-> s, energy |-> e]
UnsetTower == Tower(0, -100)

\* Tower::SetInfo: copy status and energy of a TowerInfo.
SetInfo(info) == Tower(info.status, info.energy)

\* Tower::Reset, applied to the tower it is called on.
Reset(tower) == UnsetTower

\* What a TowerInfo of an event can hold: a quiet good tower, a good tower
\* at the streak energy cut, a tower of bad status above the cut.
Quiet == Tower(1, 0)
Hot == Tower(1, 60)
BadHot == Tower(0, 60)

\* What a read outside the tower array can yield: whatever lies there. The
\* scan only asks whether it passes IsNeighborNotStreaky; one tower that
\* does and one that does not stand for all of them.
GarbageTowers == {Quiet, UnsetTower}

\* --------------------------------------------------------------- containers

\* TowerInfoContainer: channels 0 .. size-1, channel i at
\* (eta, phi) = (i \div NPhi, i % NPhi).
ChannelEta(i) == i \div NPhi
ChannelPhi(i) == i % NPhi

\* A container of n channels, quiet but for the towers of hot.
MakeContainer(n, hot) ==
  [i \in 0 .. (n - 1) |-> IF i \in DOMAIN hot THEN hot[i] ELSE Quiet]

\* The containers of n channels with at most MaxHot towers that are not
\* quiet, all of them of kind.
ContainersOfSize(n, kind) ==
  {MakeContainer(n, [i \in S |-> kind]) :
     S \in {T \in SUBSET (0 .. (n - 1)) : Cardinality(T) <= MaxHot}}

\* The events' containers: full ones, and ones that omit the last channel.
Containers ==
  ContainersOfSize(NChannels, Hot) \cup ContainersOfSize(NChannels - 1, Hot)
    \cup {MakeContainer(NChannels, [i \in {j} |-> BadHot]) : j \in 0 .. (NChannels - 1)}

Size(container) == Cardinality(DOMAIN container)

\* A TowerInfoContainer*: null, or pointing to a container.
Null == "nullptr"
NullTowers == [isNull |-> TRUE]
PointerTo(container) == [isNull |-> FALSE, container |-> container]
TopNodes == {PointerTo(c) : c \in Containers} \cup {NullTowers}

\* --------------------------------------------------- StreakSidebandFilter

\* StreakSidebandFilterConfig: the thresholds of one filter.
SidebandConfig(minNum) ==
  [minStreakTwrEne |-> minStreakTwrEneDefault,
   maxAdjacentTwrEne |-> maxAdjacentTwrEneDefault,
   minNumTwrsInStreak |-> minNum,
   inNodeName |-> "TOWERINFO_CALIB_HCALOUT"]

\* IsTowerNotStreaky without the status test.
IsTowerBelowEneCut(tower, cfg) == tower.energy < cfg.minStreakTwrEne

\* IsTowerNotStreaky with "<=" in place of "<" in its energy test.
IsTowerAtOrBelowEneCut(tower, cfg) ==
  (tower.status # 1) \/ (tower.energy <= cfg.minStreakTwrEne)

\* StreakSidebandFilter::IsTowerNotStreaky.
IsTowerNotStreaky(tower, cfg) ==
  LET isBadStatus == (tower.status # 1)
      isBelowEneCut == (tower.energy < cfg.minStreakTwrEne)
  IN isBadStatus \/ isBelowEneCut

\* IsNeighborNotStreaky with minStreakTwrEne as its energy cut.
IsNeighborAboveStreakCut(tower, cfg) ==
  (tower.status # 1) \/ (tower.energy > cfg.minStreakTwrEne)

\* IsNeighborNotStreaky without the energy test.
IsNeighborBadStatus(tower, cfg) == tower.status # 1

\* StreakSidebandFilter::IsNeighborNotStreaky.
IsNeighborNotStreaky(tower, cfg) ==
  LET isBadStatus == (tower.status # 1)
      isAboveEneCut == (tower.energy > cfg.maxAdjacentTwrEne)
  IN isBadStatus \/ isAboveEneCut

\* The lambdas of ApplyFilter; size() of a row is NPhi.
getAdjacentUp(phi) == (phi + 1) % NPhi
getAdjacentDown(phi) == IF phi = 0 THEN NPhi ELSE phi - 1

\* m_ohTwrArray[iEta][idx]. std::array::operator[] does not check idx: a
\* read with idx outside the row is undefined and yields garbage[iEta].
TowerAt(arr, iEta, idx, garbage) ==
  IF idx \in Phi THEN arr[iEta][idx] ELSE garbage[iEta]

\* ResetTowerArrays without the std::fill of the counters.
ResetKeepingCounts(arr, num) == [array |-> arr, numStreak |-> num]

\* StreakSidebandFilter::ResetTowerArrays. The loops run over copies
\* ("auto row", "auto tower"), so Reset() acts on temporaries and the
\* stored towers keep their values; std::fill zeroes the counters.
ResetTowerArrays(arr, num) ==
  [array |-> arr, numStreak |-> [p \in Phi |-> 0]]

\* StreakSidebandFilter::BuildTowerArray, the loop from channel i on.
RECURSIVE BuildFrom(_, _, _)
BuildFrom(arr, container, i) ==
  IF i >= Size(container) THEN arr
  ELSE BuildFrom([arr EXCEPT ![ChannelEta(i)][ChannelPhi(i)] = SetInfo(container[i])],
                 container, i + 1)

BuildTowerArray(arr, container) == BuildFrom(arr, container, 0)

\* The body of ApplyFilter's double loop for one (iEta, iPhi).
ScanStep(num, arr, cfg, garbage, iEta, iPhi) ==
  IF IsTowerNotStreaky(arr[iEta][iPhi], cfg) THEN num
  ELSE LET iUp == getAdjacentUp(iPhi)
           iDown == getAdjacentDown(iPhi)
           isUpNotStreak == IsNeighborNotStreaky(TowerAt(arr, iEta, iUp, garbage), cfg)
           isDownNotStreak == IsNeighborNotStreaky(TowerAt(arr, iEta, iDown, garbage), cfg)
       IN IF isUpNotStreak \/ isDownNotStreak THEN num
          ELSE [num EXCEPT ![iPhi] = @ + 1]

\* The cells in the order ApplyFilter visits them: phi outside, eta inside.
ScanOrder == [k \in 1 .. NChannels |-> <<(k - 1) % NEta, (k - 1) \div NEta>>]

RECURSIVE ScanCells(_, _, _, _, _)
ScanCells(order, num, arr, cfg, garbage) ==
  IF order = <<>> THEN num
  ELSE ScanCells(Tail(order),
                 ScanStep(num, arr, cfg, garbage, Head(order)[1], Head(order)[2]),
                 arr, cfg, garbage)

\* The double-increment body with only its second increment.
ScanStepUpOnly(num, arr, cfg, garbage, iEta, iPhi) ==
  IF IsTowerNotStreaky(arr[iEta][iPhi], cfg) THEN num
  ELSE LET iUp == getAdjacentUp(iPhi)
           iDown == getAdjacentDown(iPhi)
           isUpNotStreak == IsNeighborNotStreaky(TowerAt(arr, iEta, iUp, garbage), cfg)
           isDownNotStreak == IsNeighborNotStreaky(TowerAt(arr, iEta, iDown, garbage), cfg)
       IN IF isUpNotStreak \/ isDownNotStreak THEN num
          ELSE [num EXCEPT ![iUp] = @ + 1]

\* The body of the double loop in the ApplyFilter that reads its towers from
\* the tower map: a streak tower increments the counter of its phi and the
\* counter of phi + 1.
ScanStepDouble(num, arr, cfg, garbage, iEta, iPhi) ==
  IF IsTowerNotStreaky(arr[iEta][iPhi], cfg) THEN num
  ELSE LET iUp == getAdjacentUp(iPhi)
           iDown == getAdjacentDown(iPhi)
           isUpNotStreak == IsNeighborNotStreaky(TowerAt(arr, iEta, iUp, garbage), cfg)
           isDownNotStreak == IsNeighborNotStreaky(TowerAt(arr, iEta, iDown, garbage), cfg)
       IN IF isUpNotStreak \/ isDownNotStreak THEN num
          ELSE [p \in Phi |-> num[p] + (IF p = iPhi THEN 1 ELSE 0)
                                      + (IF p = iUp THEN 1 ELSE 0)]

\* That double loop over the cells of order.
RECURSIVE ScanCellsDouble(_, _, _, _, _)
ScanCellsDouble(order, num, arr, cfg, garbage) ==
  IF order = <<>> THEN num
  ELSE ScanCellsDouble(Tail(order),
                       ScanStepDouble(num, arr, cfg, garbage, Head(order)[1], Head(order)[2]),
                       arr, cfg, garbage)

\* std::max_element over m_ohNumStreak.
MaxStreak(num) == CHOOSE m \in {num[p] : p \in Phi} : \A p \in Phi : num[p] <= m

\* The return value with "<" in place of ">".
VerdictBelow(num, cfg) == MaxStreak(num) < cfg.minNumTwrsInStreak

\* The return value with ">=" in place of ">".
VerdictAtLeast(num, cfg) == MaxStreak(num) >= cfg.minNumTwrsInStreak

\* ApplyFilter's return value.
Verdict(num, cfg) == MaxStreak(num) > cfg.minNumTwrsInStreak

\* StreakSidebandFilter::GrabNodes: findNode::getClass yields the node's
\* container, or a null pointer when the node is not there.
GrabNodes(topNode) == topNode

\* BuildTowerArray calls m_ohcalTowers->size() without a check. With a null
\* pointer that is undefined: the process dies ("segv"), or the call goes
\* on as if the loop had nothing to do ("skip").
NullDerefOutcomes == {"segv", "skip"}

\* An ApplyFilter that keeps the longest streak it found in its
\* configuration, as the new minNumTwrsInStreak.
FilterReturnKeepingMax(towers, arr, counts, cfg) ==
  [towers |-> towers, array |-> arr, numStreak |-> counts,
   config |-> [cfg EXCEPT !.minNumTwrsInStreak = MaxStreak(counts)],
   verdict |-> Verdict(counts, cfg)]

\* What ApplyFilter leaves behind in the filter's members, m_config among
\* them, and returns.
FilterReturn(towers, arr, counts, cfg) ==
  [towers |-> towers, array |-> arr, numStreak |-> counts, config |-> cfg,
   verdict |-> Verdict(counts, cfg)]

\* ApplyFilter from its double loop on.
ScanTowerArray(towers, arr, num, cfg, garbage) ==
  FilterReturn(towers, arr, ScanCells(ScanOrder, num, arr, cfg, garbage), cfg)

\* An ApplyFilter whose double loop runs before BuildTowerArray: the scan
\* reads the array as the reset left it, and the build follows.
ScanBeforeBuild(towers, reset, cfg, garbage) ==
  FilterReturn(towers,
               IF towers.isNull THEN reset.array
               ELSE BuildTowerArray(reset.array, towers.container),
               ScanCells(ScanOrder, reset.numStreak, reset.array, cfg, garbage),
               cfg)

\* ApplyFilter from BuildTowerArray on, when that call returns.
BuildAndScan(towers, reset, cfg, garbage) ==
  ScanTowerArray(towers,
                 IF towers.isNull THEN reset.array
                 ELSE BuildTowerArray(reset.array, towers.container),
                 reset.numStreak, cfg, garbage)

\* StreakSidebandFilter::ApplyFilter when it runs to its return:
\* GrabNodes, ResetTowerArrays, BuildTowerArray, the scan, the verdict.
ApplyFilter(arr, num, cfg, topNode, garbage) ==
  BuildAndScan(GrabNodes(topNode), ResetTowerArrays(arr, num), cfg, garbage)

\* ------------------------------------------------ BeamBackgroundFilterAndQA

StreakSideband == "StreakSideband"
\* A name InitFilters makes no filter for.
Unknown == "Unknown"

\* BeamBackgroundFilterAndQA::Config.
ModuleConfig(names, doQA, doEvtAbort, minNum) ==
  [filtersToApply |-> names, doQA |-> doQA, doEvtAbort |-> doEvtAbort,
   sideband |-> SidebandConfig(minNum)]

\* The configurations the module is run with, each with what
\* QAHistManagerDef::getHistoManager() returns in that run: the sideband
\* filter under every threshold, the filter applied twice, and every way
\* of a run without a usable filter list or without a histogram manager.
Setups ==
  {[config |-> ModuleConfig(<<StreakSideband>>, FALSE, TRUE, n), manager |-> "manager"] :
     n \in 0 .. MaxThreshold}
  \cup {[config |-> ModuleConfig(<<StreakSideband>>, qa, ~qa, 0), manager |-> "manager"] :
     qa \in BOOLEAN}
  \cup {[config |-> ModuleConfig(<<StreakSideband, StreakSideband>>, FALSE, TRUE, 1),
         manager |-> "manager"]}
  \cup {[config |-> ModuleConfig(names, qa, TRUE, 1), manager |-> mgr] :
     names \in {<<>>, <<Unknown>>, <<StreakSideband, Unknown>>},
     qa \in BOOLEAN, mgr \in {Null, "manager"}}

\* The towers of a freshly constructed filter: Tower's member initializers.
FreshArray == [eta \in Eta |-> [phi \in Phi |-> UnsetTower]]
\* m_ohNumStreak has no initializer: its first values are indeterminate.
FreshCounts == {[p \in Phi |-> 0], [p \in Phi |-> NEta + 1]}

VARIABLES
  m_config,       \* the module's configuration
  histoManager,   \* what QAHistManagerDef::getHistoManager() returns
  m_manager,      \* the module's histogram manager
  m_filters,      \* the filters by name, each with its own configuration
  runState,       \* "constructed", "initialized", "terminated" (Init failed)
                  \* or "crashed" (the process died in an event)
  m_ohcalTowers,  \* the filter's input container
  m_ohTwrArray,   \* the filter's (eta, phi) tower array
  m_ohNumStreak,  \* the filter's streak counter per phi bin
  filterCalls,    \* the ApplyFilter calls of the last event, in order
  hasBkgd,        \* the last return value of ApplyFilters
  retCode,        \* the last return value of process_event
  counters        \* the event counters the filters have booked, by filter name

vars == <<m_config, histoManager, m_manager, m_filters, runState, m_ohcalTowers,
          m_ohTwrArray, m_ohNumStreak, filterCalls, hasBkgd, retCode, counters>>

filterVars == <<m_ohcalTowers, m_ohTwrArray, m_ohNumStreak>>

\* The state after the module's constructor.
Init ==
  /\ \E setup \in Setups :
       /\ m_config = setup.config
       /\ histoManager = setup.manager
  /\ m_manager = Null
  /\ m_filters = <<>>
  /\ runState = "constructed"
  /\ m_ohcalTowers = NullTowers
  /\ m_ohTwrArray = FreshArray
  /\ m_ohNumStreak \in FreshCounts
  /\ filterCalls = <<>>
  /\ hasBkgd = FALSE
  /\ retCode = "none"
  /\ counters = <<>>

\* BeamBackgroundFilterAndQA::InitFilters: one StreakSidebandFilter, made
\* from the sideband part of the configuration, whatever names are configured.
InitFilters(config) == [name \in {StreakSideband} |-> config.sideband]

\* The lookups without at()'s range check: no name is reported missing.
AllFiltersAssumedFound(filters, names) == TRUE

\* BuildHistograms and RegisterHistograms look every configured name up with
\* m_filters.at(), which throws std::out_of_range for a name not in the map.
AllFiltersFound(filters, names) ==
  \A k \in 1 .. Len(names) : names[k] \in DOMAIN filters

\* StreakSidebandFilter::BuildHistograms, called for every configured name:
\* its body is a TODO and books nothing.
BuildHistograms(hists) == hists

\* BeamBackgroundFilterAndQA::Init.
ModuleInit ==
  /\ runState = "constructed"
  /\ m_filters' = InitFilters(m_config)
  /\ IF ~AllFiltersFound(InitFilters(m_config), m_config.filtersToApply)
     THEN /\ runState' = "terminated"
          /\ m_manager' = m_manager
     ELSE IF m_config.doQA
     THEN /\ m_manager' = histoManager
          \* InitHistManager: assert(m_manager) ends the run, unless the
          \* build defines NDEBUG.
          /\ \/ /\ histoManager = Null
                /\ runState' = "terminated"
             \/ runState' = "initialized"
     ELSE /\ m_manager' = m_manager
          /\ runState' = "initialized"
  /\ counters' = BuildHistograms(counters)
  /\ UNCHANGED <<m_config, histoManager, filterVars, filterCalls, hasBkgd, retCode>>

BoolToInt(b) == IF b THEN 1 ELSE 0

\* "hasBkgd *= verdict" in place of "+=": the product of the two.
PlusAssignAsTimes(hasBkgdSoFar, verdict) ==
  (BoolToInt(hasBkgdSoFar) * BoolToInt(verdict)) # 0

\* "hasBkgd += verdict" on bools: the sum of the two as integers, read back
\* as a bool.
PlusAssign(hasBkgdSoFar, verdict) == (BoolToInt(hasBkgdSoFar) + BoolToInt(verdict)) # 0

\* The state of ApplyFilters' loop after filter name returned r.
AfterCall(st, name, r, garbage) ==
  [towers |-> r.towers, array |-> r.array, numStreak |-> r.numStreak,
   calls |-> Append(st.calls, [name |-> name, verdict |-> r.verdict,
                               garbage |-> garbage]),
   hasBkgd |-> PlusAssign(st.hasBkgd, r.verdict),
   filters |-> [st.filters EXCEPT ![name] = r.config]]

\* The loop with a "break" once a filter has returned true.
RECURSIVE ApplyFiltersUntilTrue(_, _, _, _)
ApplyFiltersUntilTrue(names, st, topNode, garbages) ==
  IF names = <<>> \/ st.hasBkgd THEN st
  ELSE ApplyFiltersUntilTrue(
         Tail(names),
         AfterCall(st, Head(names),
                   ApplyFilter(st.array, st.numStreak, st.filters[Head(names)],
                               topNode, Head(garbages)),
                   Head(garbages)),
         topNode, Tail(garbages))

\* The loop of BeamBackgroundFilterAndQA::ApplyFilters over the names still to
\* apply; garbages holds what each call's reads outside the array yield.
RECURSIVE ApplyFiltersLoop(_, _, _, _)
ApplyFiltersLoop(names, st, topNode, garbages) ==
  IF names = <<>> THEN st
  ELSE ApplyFiltersLoop(
         Tail(names),
         AfterCall(st, Head(names),
                   ApplyFilter(st.array, st.numStreak, st.filters[Head(names)],
                               topNode, Head(garbages)),
                   Head(garbages)),
         topNode, Tail(garbages))

\* BeamBackgroundFilterAndQA::ApplyFilters.
ApplyFilters(config, filters, towers, arr, num, topNode, garbages) ==
  ApplyFiltersLoop(config.filtersToApply,
                   [towers |-> towers, array |-> arr, numStreak |-> num,
                    calls |-> <<>>, hasBkgd |-> FALSE, filters |-> filters],
                   topNode, garbages)

\* The return code without the doEvtAbort test.
ReturnCodeIgnoringAbortFlag(hasBeamBkgd, config) ==
  IF hasBeamBkgd THEN "ABORTEVENT" ELSE "EVENT_OK"

\* The return code of process_event.
ReturnCode(hasBeamBkgd, config) ==
  IF hasBeamBkgd /\ config.doEvtAbort THEN "ABORTEVENT" ELSE "EVENT_OK"

\* What the reads outside the array can yield in a scan of arr: a tower per
\* eta row, fixed to UnsetTower for the rows whose phi = 0 tower is no
\* candidate (their down-neighbor is never read).
GarbageFns(arr, cfg) ==
  {g \in [Eta -> GarbageTowers] :
     \A eta \in Eta : IsTowerNotStreaky(arr[eta][0], cfg) => g[eta] = UnsetTower}

\* The array a call of ApplyFilter scans.
ScannedArray(arr, topNode) ==
  IF topNode.isNull THEN arr ELSE BuildTowerArray(arr, topNode.container)

\* BeamBackgroundFilterAndQA::process_event on an event whose node holds
\* topNode, running to its return.
ProcessEvent ==
  /\ runState = "initialized"
  /\ \E topNode \in TopNodes :
       /\ (topNode.isNull /\ m_config.filtersToApply # <<>>) => "skip" \in NullDerefOutcomes
       /\ \E garbages \in [1 .. Len(m_config.filtersToApply) ->
                             GarbageFns(ScannedArray(m_ohTwrArray, topNode),
                                        m_config.sideband)] :
            \E r \in {ApplyFilters(m_config, m_filters, m_ohcalTowers, m_ohTwrArray,
                                    m_ohNumStreak, topNode, garbages)} :
               /\ m_ohcalTowers' = r.towers
               /\ m_ohTwrArray' = r.array
               /\ m_ohNumStreak' = r.numStreak
               /\ m_filters' = r.filters
               /\ filterCalls' = r.calls
               /\ hasBkgd' = r.hasBkgd
               /\ retCode' = ReturnCode(r.hasBkgd, m_config)
  /\ UNCHANGED <<m_config, histoManager, m_manager, runState, counters>>

\* process_event on an event without the input node, when the null pointer
\* in the first filter's BuildTowerArray ends the process.
ProcessEventSegv ==
  /\ runState = "initialized"
  /\ m_config.filtersToApply # <<>>
  /\ "segv" \in NullDerefOutcomes
  /\ \E reset \in {ResetTowerArrays(m_ohTwrArray, m_ohNumStreak)} :
        /\ m_ohcalTowers' = GrabNodes(NullTowers)
        /\ m_ohTwrArray' = reset.array
        /\ m_ohNumStreak' = reset.numStreak
  /\ runState' = "crashed"
  /\ filterCalls' = <<>>
  /\ UNCHANGED <<m_config, histoManager, m_manager, m_filters, hasBkgd, retCode,
                 counters>>

Next == ModuleInit \/ ProcessEvent \/ ProcessEventSegv

Spec == Init /\ [][Next]_vars

\* ------------------------------------------------------------------ claims

\* An event has been processed to its return, with the filters applied.
EventReturned == runState = "initialized" /\ retCode # "none"
FilterApplied == EventReturned /\ filterCalls # <<>>
LastCall == filterCalls[Len(filterCalls)]
\* The configuration of the filter the last call ran.
LastConfig == m_filters[LastCall.name]

\* C1: ApplyFilters returns true exactly when at least one of the configured
\* filters' ApplyFilter calls returned true, and every configured filter is
\* called once, in the configured order.
C1_ApplyFiltersIsOr ==
  EventReturned =>
    /\ Len(filterCalls) = Len(m_config.filtersToApply)
    /\ \A k \in 1 .. Len(filterCalls) : filterCalls[k].name = m_config.filtersToApply[k]
    /\ hasBkgd <=> (\E k \in 1 .. Len(filterCalls) : filterCalls[k].verdict)

\* Two filters were applied, one said background and the other did not, and
\* ApplyFilters returned true.
C1_Witness ==
  /\ EventReturned
  /\ Len(filterCalls) = 2
  /\ filterCalls[1].verdict # filterCalls[2].verdict
  /\ hasBkgd

\* The down-neighbor index the specification gives.
WrappedDown(phi) == IF phi = 0 THEN NPhi - 1 ELSE phi - 1

\* Row eta holds a streak tower at phi = 0 whose neighbors across the wrap,
\* at phi = 1 and phi = NPhi - 1, are both quiet good towers.
StreakAcrossWrap(eta) ==
  /\ m_ohTwrArray[eta][0].status = 1
  /\ m_ohTwrArray[eta][0].energy >= LastConfig.minStreakTwrEne
  /\ \A phi \in {1, NPhi - 1} :
       /\ m_ohTwrArray[eta][phi].status = 1
       /\ m_ohTwrArray[eta][phi].energy <= LastConfig.maxAdjacentTwrEne

\* C2: the up-neighbor of phi is (phi + 1) mod NPhi, the down-neighbor is
\* NPhi - 1 when phi = 0 and phi - 1 otherwise, so that a streak tower at
\* phi = 0 with quiet neighbors across the wrap is counted.
C2_NeighborsWrap ==
  (FilterApplied /\ \E eta \in Eta : StreakAcrossWrap(eta)) =>
    /\ \A phi \in Phi : getAdjacentUp(phi) = (phi + 1) % NPhi
    /\ \A phi \in Phi : getAdjacentDown(phi) = WrappedDown(phi)
    /\ m_ohNumStreak[0] >= Cardinality({eta \in Eta : StreakAcrossWrap(eta)})

\* The verdict of a filter that has seen no earlier event, on the container
\* of the last event and with the same reads outside the array.
FirstEventVerdict(call) ==
  ApplyFilter(FreshArray, [p \in Phi |-> 0], m_filters[call.name], m_ohcalTowers,
              call.garbage).verdict

\* C3: the verdict of every call depends only on the event's own container
\* and the configuration: it is the verdict a filter that has seen no
\* earlier event returns.
C3_NoStaleData ==
  (FilterApplied /\ ~m_ohcalTowers.isNull) =>
    \A k \in 1 .. Len(filterCalls) : filterCalls[k].verdict = FirstEventVerdict(filterCalls[k])

NullContainerEvent ==
  /\ m_ohcalTowers.isNull
  /\ m_config.filtersToApply # <<>>
  /\ EventReturned \/ runState = "crashed"

\* C5: on an event without the input container the array is left entirely
\* at the reset values, ApplyFilter returns false, and processing goes on.
C5_NullContainerIsQuiet ==
  NullContainerEvent =>
    /\ runState = "initialized"
    /\ m_ohTwrArray = FreshArray
    /\ \A k \in 1 .. Len(filterCalls) : ~filterCalls[k].verdict

\* No tower of the array is a streak candidate under the last configuration.
NoCandidate ==
  \A eta \in Eta, phi \in Phi :
    ~(m_ohTwrArray[eta][phi].status = 1
        /\ m_ohTwrArray[eta][phi].energy >= LastConfig.minStreakTwrEne)

\* C6: when no tower of the array is a candidate (good status and energy at
\* or above minStreakTwrEne), every counter is zero and ApplyFilter returns
\* false, whatever minNumTwrsInStreak >= 0 is.
C6_NoCandidateNoBackground ==
  (FilterApplied /\ NoCandidate) =>
    /\ \A p \in Phi : m_ohNumStreak[p] = 0
    /\ \A k \in 1 .. Len(filterCalls) : ~filterCalls[k].verdict
    /\ \A t \in 0 .. MaxThreshold : ~Verdict(m_ohNumStreak, SidebandConfig(t))

\* The filter ran on an array whose towers all have good status and energy 0.
C6_Witness ==
  /\ FilterApplied
  /\ \A eta \in Eta, phi \in Phi : m_ohTwrArray[eta][phi] = Quiet

\* The verdict of the last call, had minNumTwrsInStreak been t: the same
\* container, energy cuts and reads outside the array.
VerdictUnder(t) ==
  ApplyFilter(m_ohTwrArray, m_ohNumStreak,
              [LastConfig EXCEPT !.minNumTwrsInStreak = t],
              m_ohcalTowers, LastCall.garbage).verdict

\* C7: with the container and the energy cuts fixed, the verdict is
\* monotone non-increasing in minNumTwrsInStreak: a verdict that is true
\* under t2 is true under every t1 <= t2.
C7_VerdictMonotone ==
  FilterApplied =>
    /\ VerdictUnder(LastConfig.minNumTwrsInStreak) = LastCall.verdict
    /\ \A t1 \in 0 .. MaxThreshold, t2 \in 0 .. MaxThreshold :
         (t1 <= t2 /\ VerdictUnder(t2)) => VerdictUnder(t1)

\* Raising the threshold turns the verdict of the last call from true to
\* false.
C7_Witness ==
  /\ FilterApplied
  /\ \E t \in 1 .. MaxThreshold : VerdictUnder(t - 1) /\ ~VerdictUnder(t)

\* C8: applying the filter twice in a row to the same container gives the
\* same array and the same verdict both times.
C8_RebuildIsIdempotent ==
  [][(/\ FilterApplied
      /\ FilterApplied'
      /\ ~m_ohcalTowers.isNull
      /\ m_ohcalTowers' = m_ohcalTowers)
       => (/\ m_ohTwrArray' = m_ohTwrArray
           /\ LastCall'.verdict = LastCall.verdict)]_vars

\* Every order in which the cells of the array can be scanned.
ScanOrders ==
  {[k \in 1 .. NChannels |-> ScanOrder[perm[k]]] : perm \in Permutations(1 .. NChannels)}

\* C9: the counters, and with them the verdict, are the same for every
\* order in which the cells of the built array are scanned, whatever the
\* scan's reads yield.
C9_ScanOrderIndependent ==
  FilterApplied =>
    \A order \in ScanOrders, garbage \in GarbageFns(m_ohTwrArray, LastConfig) :
      ScanCells(order, [p \in Phi |-> 0], m_ohTwrArray, LastConfig, garbage)
        = m_ohNumStreak

\* C10: every event passed to ApplyFilters adds one to the events-seen
\* counter of every configured filter, and one to its no-background or its
\* background counter according to that filter's own verdict.
C10_CountersOncePerEvent ==
  [][(runState = "initialized" /\ runState' = "initialized")
       => \A k \in 1 .. Len(filterCalls') :
            LET name == filterCalls'[k].name
                isBkgd == filterCalls'[k].verdict
            IN /\ name \in DOMAIN counters /\ name \in DOMAIN counters'
               /\ counters'[name].seen = counters[name].seen + 1
               /\ counters'[name].bkgd = counters[name].bkgd + BoolToInt(isBkgd)
               /\ counters'[name].noBkgd = counters[name].noBkgd + BoolToInt(~isBkgd)]_vars

\* The name the aggregate counter triple is booked under.
Aggregate == "Aggregate"

\* A counter triple is consistent, and no count of it goes down in the step.
TripleKept(name) ==
  /\ name \in DOMAIN counters /\ name \in DOMAIN counters'
  /\ counters'[name].seen = counters'[name].noBkgd + counters'[name].bkgd
  /\ counters'[name].seen >= counters[name].seen
  /\ counters'[name].noBkgd >= counters[name].noBkgd
  /\ counters'[name].bkgd >= counters[name].bkgd

\* C11: in every step of a run that processes an event, every per-filter
\* triple and the aggregate triple stay consistent (seen = no-background +
\* background) and never decrease, and the aggregate triple counts the
\* event: seen goes up by one, background by one when the aggregate
\* verdict is true.
C11_CountersConsistent ==
  [][(runState = "initialized" /\ runState' = "initialized")
       => /\ \A k \in 1 .. Len(m_config.filtersToApply) :
               TripleKept(m_config.filtersToApply[k])
          /\ TripleKept(Aggregate)
          /\ counters'[Aggregate].seen = counters[Aggregate].seen + 1
          /\ counters'[Aggregate].bkgd = counters[Aggregate].bkgd + BoolToInt(hasBkgd')]_vars

\* The names of the filters called in the last event, in the order of the calls.
CalledNames == [k \in 1 .. Len(filterCalls) |-> filterCalls[k].name]

\* C12: in every event ApplyFilters calls each filter named in
\* filtersToApply exactly once and in the configured order; a filter that
\* returned true does not keep the later ones from being called.
C12_EveryFilterCalledInOrder ==
  EventReturned => CalledNames = m_config.filtersToApply

\* The first of two configured filters returned true and the second was
\* called all the same.
C12_Witness ==
  /\ EventReturned
  /\ Len(m_config.filtersToApply) = 2
  /\ Len(filterCalls) = 2
  /\ filterCalls[1].verdict

\* The names the configuration lists.
ConfiguredNames == {m_config.filtersToApply[k] : k \in 1 .. Len(m_config.filtersToApply)}

\* C13: after Init has completed, the module holds a filter for exactly the
\* names in filtersToApply, none for a name that is not listed, each with
\* its own part of the configuration.
C13_OneFilterPerConfiguredName ==
  runState = "initialized" =>
    /\ DOMAIN m_filters = ConfiguredNames
    /\ \A name \in DOMAIN m_filters : m_filters[name] = m_config.sideband

\* The configuration lists a name the module makes no filter for.
HasUnknownName ==
  \E k \in 1 .. Len(m_config.filtersToApply) : m_config.filtersToApply[k] # StreakSideband

\* C14: with a name in filtersToApply that the module does not know, Init
\* ends the run in an error; the module never gets to process an event, so
\* the name is neither ignored nor first met in process_event.
C14_UnknownNameFailsInit ==
  HasUnknownName =>
    /\ runState \in {"constructed", "terminated"}
    /\ retCode = "none"
    /\ filterCalls = <<>>

\* Init has run on a configuration with an unknown name and ended the run.
C14_Witness == HasUnknownName /\ runState = "terminated"

\* C15: when no histogram manager is to be had, Init ends the run in a
\* fatal error under every configuration, doQA = false included, and no
\* event is ever processed.
C15_MissingManagerIsFatal ==
  histoManager = Null =>
    /\ runState \in {"constructed", "terminated"}
    /\ retCode = "none"

\* Scenario B on the model's array: the phi bins of a block of adjacent
\* candidates in one eta row. The block stays clear of phi = 0; the code's
\* bins 10 .. 15 of 64 are bins 1 .. NPhi - 1 here.
BlockPhis == 1 .. (NPhi - 1)
BlockLen == Cardinality(BlockPhis)

\* The array of the last call is scenario B's, with the block in row eta:
\* the towers of the block are good with energy above minStreakTwrEne,
\* every other tower is good with energy 0.
ScenarioB(eta) ==
  /\ FilterApplied
  /\ ~m_ohcalTowers.isNull
  /\ \A e \in Eta, p \in Phi :
       m_ohTwrArray[e][p] = IF e = eta /\ p \in BlockPhis THEN Hot ELSE Quiet

\* C16, as claimed: on scenario B's array with minNumTwrsInStreak one
\* below the length of the block, some phi bin's counter reaches the length
\* of the block and ApplyFilter returns true.
C16_ScenarioBFindsStreak ==
  \A eta \in Eta :
    (ScenarioB(eta) /\ LastConfig.minNumTwrsInStreak = BlockLen - 1) =>
      /\ \E p \in Phi : m_ohNumStreak[p] >= BlockLen
      /\ LastCall.verdict

\* C16, amended: on scenario B's array each candidate of the block has
\* another candidate of the block as its up or down neighbor, which is above
\* maxAdjacentTwrEne, so no counter is incremented and ApplyFilter returns
\* false under every threshold.
C16_ScenarioBCountsNothing ==
  \A eta \in Eta :
    ScenarioB(eta) =>
      /\ \A p \in Phi : m_ohNumStreak[p] = 0
      /\ \A k \in 1 .. Len(filterCalls) : ~filterCalls[k].verdict

\* The filter ran on scenario B's array with the threshold of the claim.
C16_Witness ==
  \E eta \in Eta : ScenarioB(eta) /\ LastConfig.minNumTwrsInStreak = BlockLen - 1

\* Scenario C's change to an array: the energy of the up-neighbor of the
\* tower at (eta, phi) becomes 0.5 (50 in the model's units), between the
\* two energy cuts.
RaiseUpNeighbor(arr, eta, phi) ==
  [arr EXCEPT ![eta][(phi + 1) % NPhi].energy = 50]

\* The tower is a streak candidate under the last configuration.
IsCandidate(tower) ==
  tower.status = 1 /\ tower.energy >= LastConfig.minStreakTwrEne

\* The counters of the last call's scan, had it scanned arr.
CountsOn(arr) ==
  ScanCells(ScanOrder, [p \in Phi |-> 0], arr, LastConfig, LastCall.garbage)

\* With counts the counters on raised, the array with the up-neighbor of
\* (eta, phi) raised: the tower at (eta, phi) adds to no counter, no counter
\* is above its value on the array as it was, and the verdict is false
\* under every threshold the largest counter does not exceed.
RaisedNeighborVetoes(raised, counts, eta, phi) ==
  /\ ScanStep([p \in Phi |-> 0], raised, LastConfig, LastCall.garbage, eta, phi)
       = [p \in Phi |-> 0]
  /\ \A p \in Phi : counts[p] <= m_ohNumStreak[p]
  /\ \A t \in 0 .. MaxThreshold :
       (\A p \in Phi : counts[p] <= t)
         => ~Verdict(counts, [LastConfig EXCEPT !.minNumTwrsInStreak = t])

\* C17: raising the energy of a candidate's up-neighbor to 0.5, above
\* maxAdjacentTwrEne, makes that candidate add to no streak counter, leaves
\* no counter above its former value, and gives a false verdict whenever
\* the largest counter is then at or below minNumTwrsInStreak.
C17_RaisedNeighborVetoes ==
  FilterApplied =>
    \A eta \in Eta, phi \in Phi :
      IsCandidate(m_ohTwrArray[eta][phi]) =>
        RaisedNeighborVetoes(RaiseUpNeighbor(m_ohTwrArray, eta, phi),
                             CountsOn(RaiseUpNeighbor(m_ohTwrArray, eta, phi)),
                             eta, phi)

\* A candidate away from phi = 0 was counted by the last call, and is not
\* counted once its up-neighbor is raised.
C17_Witness ==
  /\ FilterApplied
  /\ \E eta \in Eta, phi \in Phi \ {0} :
       /\ IsCandidate(m_ohTwrArray[eta][phi])
       /\ m_ohNumStreak[phi] > 0
       /\ CountsOn(RaiseUpNeighbor(m_ohTwrArray, eta, phi))[phi] < m_ohNumStreak[phi]

\* C18: processing an event changes no configuration: the module's own,
\* and every filter's minStreakTwrEne, maxAdjacentTwrEne, minNumTwrsInStreak
\* and inNodeName, are after the event what they were before it.
C18_ConfigUnchangedByEvents ==
  [][runState = "initialized" => (m_filters' = m_filters /\ m_config' = m_config)]_vars

\* An event was found to have background, and the filter that found it
\* still holds the configuration it was made with.
C18_Witness ==
  /\ FilterApplied
  /\ hasBkgd
  /\ LastConfig = m_config.sideband
  /\ LastConfig.inNodeName = "TOWERINFO_CALIB_HCALOUT"

\* C19: right after ResetTowerArrays returns, every tower of the array has
\* status 0 and energy -1, whatever the array held before the call.
C19_ResetLeavesSentinel ==
  \A eta \in Eta, phi \in Phi :
    /\ ResetTowerArrays(m_ohTwrArray, m_ohNumStreak).array[eta][phi].status = 0
    /\ ResetTowerArrays(m_ohTwrArray, m_ohNumStreak).array[eta][phi].energy = -100

\* The channels of the last event's container that map to (eta, phi).
ChannelsAt(eta, phi) ==
  {i \in DOMAIN m_ohcalTowers.container : ChannelEta(i) = eta /\ ChannelPhi(i) = phi}

\* C20: after the reset and BuildTowerArray of an event, every cell some
\* channel of the container maps to holds that channel's status and energy,
\* and every cell no channel maps to has status 0 and energy -1.
C20_BuildFillsOnlyMappedCells ==
  (FilterApplied /\ ~m_ohcalTowers.isNull) =>
    \A eta \in Eta, phi \in Phi :
      IF ChannelsAt(eta, phi) # {}
      THEN \E i \in ChannelsAt(eta, phi) :
             /\ m_ohTwrArray[eta][phi].status = m_ohcalTowers.container[i].status
             /\ m_ohTwrArray[eta][phi].energy = m_ohcalTowers.container[i].energy
      ELSE m_ohTwrArray[eta][phi].status = 0 /\ m_ohTwrArray[eta][phi].energy = -100

\* The tower passes the sideband test of the specification: good status and
\* energy at or below maxAdjacentTwrEne.
PassesSideband(tower) ==
  tower.status = 1 /\ tower.energy <= LastConfig.maxAdjacentTwrEne

\* The eta rows in which the tower at phi is a candidate and its neighbors at
\* phi + 1 and phi - 1, taken around the ring, both pass the sideband test.
StreakRows(phi) ==
  {eta \in Eta :
     /\ IsCandidate(m_ohTwrArray[eta][phi])
     /\ PassesSideband(m_ohTwrArray[eta][(phi + 1) % NPhi])
     /\ PassesSideband(m_ohTwrArray[eta][WrappedDown(phi)])}

\* C21: after the scan of ApplyFilter the counter of every phi bin is the
\* number of eta rows in which the tower of that bin is a candidate with both
\* its up- and its down-neighbor passing the sideband test; a candidate adds
\* to its own bin only.
C21_CounterIsNumberOfStreakRows ==
  FilterApplied =>
    \A phi \in Phi : m_ohNumStreak[phi] = Cardinality(StreakRows(phi))

\* C22: a tower is a candidate exactly when its status is good and its energy
\* is at or above minStreakTwrEne, an energy equal to the cut included; the
\* scan skips every other tower, which changes no counter.
C22_CandidateIffGoodAndAtOrAboveCut ==
  FilterApplied =>
    \A eta \in Eta, phi \in Phi :
      /\ IsTowerNotStreaky(m_ohTwrArray[eta][phi], LastConfig)
           <=> ~IsCandidate(m_ohTwrArray[eta][phi])
      /\ ~IsCandidate(m_ohTwrArray[eta][phi]) =>
           ScanStep(m_ohNumStreak, m_ohTwrArray, LastConfig, LastCall.garbage, eta, phi)
             = m_ohNumStreak

\* A call has counted a good tower whose energy is exactly minStreakTwrEne,
\* on an array that also holds a good tower below the cut and one of bad
\* status.
C22_Witness ==
  /\ FilterApplied
  /\ \E eta \in Eta, phi \in 1 .. (NPhi - 1) :
       /\ m_ohTwrArray[eta][phi].status = 1
       /\ m_ohTwrArray[eta][phi].energy = LastConfig.minStreakTwrEne
       /\ m_ohNumStreak[phi] > 0
  /\ \E eta \in Eta, phi \in Phi : m_ohTwrArray[eta][phi] = Quiet
  /\ \E eta \in Eta, phi \in Phi : m_ohTwrArray[eta][phi].status # 1

\* C23: a candidate adds to a counter only if its up-neighbor and its
\* down-neighbor in the same eta row both have good status and an energy at
\* or below maxAdjacentTwrEne; if either neighbor has bad status or an energy
\* above the cut, the candidate changes no counter.
C23_NeighborVetoesCandidate ==
  FilterApplied =>
    \A eta \in Eta, phi \in Phi :
      ( /\ IsCandidate(m_ohTwrArray[eta][phi])
        /\ \/ ~PassesSideband(m_ohTwrArray[eta][(phi + 1) % NPhi])
           \/ ~PassesSideband(m_ohTwrArray[eta][WrappedDown(phi)]) )
      => ScanStep([p \in Phi |-> 0], m_ohTwrArray, LastConfig, LastCall.garbage, eta, phi)
           = [p \in Phi |-> 0]

\* C24: every ApplyFilter call grabs its input, resets, builds the array,
\* scans it and returns the verdict, in that order: what the call leaves
\* behind is the grabbed container written into the array, the counters of a
\* scan that started from zero and read that finished array, and the verdict
\* taken from those counters.
C24_GrabResetBuildScanReturn ==
  FilterApplied =>
    /\ ~m_ohcalTowers.isNull =>
         \A i \in 0 .. (Size(m_ohcalTowers.container) - 1) :
           m_ohTwrArray[ChannelEta(i)][ChannelPhi(i)] = SetInfo(m_ohcalTowers.container[i])
    /\ m_ohNumStreak = CountsOn(m_ohTwrArray)
    /\ LastCall.verdict = Verdict(m_ohNumStreak, LastConfig)

\* A call on an event with a container has built the array, counted a streak
\* tower in the scan and returned true.
C24_Witness ==
  /\ FilterApplied
  /\ ~m_ohcalTowers.isNull
  /\ \E phi \in Phi : m_ohNumStreak[phi] > 0
  /\ LastCall.verdict

\* C25: the scan of every ApplyFilter call starts with all counters at zero,
\* whatever the counters held before the call (the indeterminate values of a
\* fresh filter, or the counts of an earlier call), so the counts of one
\* event never add to those of another: no counter exceeds the number of
\* candidates in its own bin.
C25_CountersZeroAtScanStart ==
  /\ ResetTowerArrays(m_ohTwrArray, m_ohNumStreak).numStreak = [p \in Phi |-> 0]
  /\ FilterApplied =>
       \A phi \in Phi :
         m_ohNumStreak[phi]
           <= Cardinality({eta \in Eta : IsCandidate(m_ohTwrArray[eta][phi])})

\* The filter has been called twice in one event, the second call starting
\* from the nonzero counts the first one left.
C25_Witness ==
  /\ FilterApplied
  /\ Len(filterCalls) = 2
  /\ filterCalls[1].name = filterCalls[2].name
  /\ \E phi \in Phi : m_ohNumStreak[phi] > 0

\* C26: every index ApplyFilter uses to read the array or to write a counter
\* is in range: the eta and phi of each scanned cell, and the phi of the up-
\* and of the down-neighbor the scan computes for each candidate, the ones
\* of phi = 0 and phi = Nphi - 1 included.
C26_IndicesInRange ==
  FilterApplied =>
    \A eta \in Eta, phi \in Phi :
      ~IsTowerNotStreaky(m_ohTwrArray[eta][phi], LastConfig) =>
        /\ getAdjacentUp(phi) \in Phi
        /\ getAdjacentDown(phi) \in Phi

\* C27: the sentinel tower (status 0, energy -1) is never a candidate and
\* never passes the sideband test, so a candidate whose up- or down-neighbor
\* was not populated by the container of the current event adds to no
\* counter.
C27_UnpopulatedNeighborVetoes ==
  /\ IsTowerNotStreaky(UnsetTower, SidebandConfig(0))
  /\ IsNeighborNotStreaky(UnsetTower, SidebandConfig(0))
  /\ (FilterApplied /\ ~m_ohcalTowers.isNull) =>
       \A eta \in Eta, phi \in Phi :
         ( /\ IsCandidate(m_ohTwrArray[eta][phi])
           /\ \/ ChannelsAt(eta, (phi + 1) % NPhi) = {}
              \/ ChannelsAt(eta, WrappedDown(phi)) = {} )
         => ScanStep([p \in Phi |-> 0], m_ohTwrArray, LastConfig, LastCall.garbage, eta, phi)
              = [p \in Phi |-> 0]

\* The counters the double-increment scan leaves on the array of the last
\* call, with the same configuration and the same out-of-row reads.
DoubleCounts ==
  ScanCellsDouble(ScanOrder, [p \in Phi |-> 0], m_ohTwrArray, LastConfig,
                  LastCall.garbage)

\* No counter of double is below the single-increment one, and under every
\* threshold a true single-increment verdict comes with a true verdict on
\* double.
DoubleCovers(double) ==
  /\ \A p \in Phi : m_ohNumStreak[p] <= double[p]
  /\ LastCall.verdict => Verdict(double, LastConfig)
  /\ \A t \in 0 .. MaxThreshold :
       Verdict(m_ohNumStreak, [LastConfig EXCEPT !.minNumTwrsInStreak = t])
         => Verdict(double, [LastConfig EXCEPT !.minNumTwrsInStreak = t])

\* C28: on the same event and thresholds, whenever the scan that increments
\* only the candidate's own bin returns true, the scan that also increments
\* the up-neighbor's bin returns true: each of its counters is at least the
\* single-increment one.
C28_SingleVerdictImpliesDouble ==
  FilterApplied => DoubleCovers(DoubleCounts)

\* The single-increment scan has returned true, and the double-increment
\* scan of the same array ends with other counters.
C28_Witness ==
  /\ FilterApplied
  /\ LastCall.verdict
  /\ Verdict(DoubleCounts, LastConfig)
  /\ DoubleCounts # m_ohNumStreak

\* The rows of arr and the counters num turned by k around the phi ring:
\* what was at phi is at (phi + k) % NPhi.
RotateArray(arr, k) ==
  [eta \in Eta |-> [phi \in Phi |-> arr[eta][(phi + NPhi - k) % NPhi]]]
RotateCounts(num, k) == [phi \in Phi |-> num[(phi + NPhi - k) % NPhi]]

\* C29: turning the array by k bins around the phi ring turns the counters
\* of the scan by k and leaves the verdict as it was.
C29_VerdictInvariantUnderRotation ==
  FilterApplied =>
    \A k \in Phi :
      /\ CountsOn(RotateArray(m_ohTwrArray, k)) = RotateCounts(m_ohNumStreak, k)
      /\ Verdict(CountsOn(RotateArray(m_ohTwrArray, k)), LastConfig) = LastCall.verdict

\* C30: process_event returns ABORTEVENT exactly when ApplyFilters returned
\* true and doEvtAbort is set, and EVENT_OK in every other case; it never
\* returns ABORTEVENT when the aggregate verdict is false.
C30_AbortIffBackgroundAndFlag ==
  EventReturned =>
    /\ retCode = "ABORTEVENT" <=> (hasBkgd /\ m_config.doEvtAbort)
    /\ retCode # "ABORTEVENT" => retCode = "EVENT_OK"
    /\ ~hasBkgd => retCode = "EVENT_OK"

\* An event with beam background has been processed with doEvtAbort off and
\* has returned EVENT_OK.
C30_Witness ==
  /\ EventReturned
  /\ hasBkgd
  /\ ~m_config.doEvtAbort
  /\ retCode = "EVENT_OK"

====
